---- MODULE Spec2Model ----
(***************************************************************************)
(* Telemetry delivery engine of the Hive Streaming TelemetryPlugin         *)
(* (three variants of the class: "quality-always", "scalable &             *)
(* fault-tolerant", "full").  The model covers the bounded event queue     *)
(* (enqueue), the single-flight flush (flushQueue), the failure handling   *)
(* with requeue and exponential backoff (handleFailedBatch), the periodic  *)
(* flush timer, the browser 'online' listener and the one-shot retry timer.*)
(*                                                                         *)
(* JavaScript runs callbacks one at a time: the part of flushQueue before  *)
(* `await fetch` is one atomic step, and the part after the await          *)
(* resolves (handleFailedBatch, isSending = false) is another.             *)
(***************************************************************************)
EXTENDS Integers, Sequences, FiniteSets

(* ------------------------------ bounds -------------------------------- *)
\* number of events the producers record in one behaviour
MaxEvents == 4
\* config.maxQueueSize is drawn from 1..MaxQueueSizeBound
MaxQueueSizeBound == 3
\* config.maxBatchSize is drawn from 1..MaxBatchSizeBound
MaxBatchSizeBound == 2
\* config.maxRetries is drawn from 1..MaxRetriesBound
MaxRetriesBound == 2
\* number of events recorded in one behaviour of the liveness specification
LiveEvents == 2
\* number of events recorded in one behaviour of the end-to-end specification
EndToEndEvents == 2

(* ------------------------- program constants -------------------------- *)
\* default of config.backoffBaseMs
BackoffBaseMs == 1000

\* the three TelemetryPlugin classes
Variants == {"quality", "scalable", "full"}

VARIABLES
    variant,        \* which of the three TelemetryPlugin classes runs
    maxQueueSize,   \* this.config.maxQueueSize
    maxBatchSize,   \* this.config.maxBatchSize
    maxRetries,     \* this.config.maxRetries
    eventQueue,     \* this.eventQueue: sequence of [id, rc] (rc = _retryCount)
    isSending,      \* this.isSending
    retryTimer,     \* this.retryTimer: 0 = null, else a timeout handle
    timers,         \* timeouts set and neither fired nor cleared: [id, delay]
    calls,          \* flushQueue invocations suspended at `await fetch`,
                    \* each identified by its local `batch`
    online,         \* navigator.onLine
    nextId,         \* number of events built by the producers so far
    budget,         \* number of events the producers build in this behaviour
    stored,         \* server: per event, rows of telemetry_events holding it
    reqs,           \* server: invocations of the POST /telemetry handler:
                    \* [batch, done (events inserted), status, orphan (the
                    \* client no longer waits for the response)]
    failCount,      \* history: per event, failed send attempts that included it
    consecFails,    \* history: failed sends since the last successful send
    delivered,      \* history: ids of events whose batch got a 2xx response
    dropped,        \* history: ids of events dropped after max retries
    evicted,        \* history: ids of events shifted out by a full queue
    lastOp,         \* history: the operation that produced this state
    lastBatch,      \* history: the events that operation took out of the queue
                    \* (flush), evicted (record), delivered (ok) or handled
                    \* as failed, after the increment (fail)
    takenAt,        \* history: nextId when the latest batch was spliced off
    sendCount,      \* history: per event, send attempts that included it
    cleared         \* history: the last operation cleared a pending timeout

config == <<variant, maxQueueSize, maxBatchSize, maxRetries>>
engine == <<eventQueue, isSending, retryTimer, timers, calls>>
history == <<failCount, consecFails, delivered, dropped, evicted, lastOp, lastBatch,
             takenAt, sendCount, cleared>>
server == <<stored, reqs>>
vars == <<config, engine, online, nextId, budget, server, history>>

(* ------------------------------ helpers ------------------------------- *)
Min(a, b) == IF a <= b THEN a ELSE b

Ids(s) == {s[i].id : i \in 1..Len(s)}

QueueIds == Ids(eventQueue)

CallIds == UNION {Ids(b) : b \in calls}

\* position of the event with identity id in s, 0 when absent
Pos(s, id) == IF \E i \in 1..Len(s) : s[i].id = id
              THEN CHOOSE i \in 1..Len(s) : s[i].id = id
              ELSE 0

\* Math.max(...batch.map(e => e._retryCount))
MaxRc(b) == CHOOSE m \in {b[i].rc : i \in 1..Len(b)} :
                \A i \in 1..Len(b) : b[i].rc <= m

(* ------------------------------ enqueue ------------------------------- *)
\* variation: the test is for equality
QueueFullExact(q) == Len(q) = maxQueueSize

\* variation: the comparison is strict
QueueFullStrict(q) == Len(q) > maxQueueSize

\* if (this.eventQueue.length >= this.config.maxQueueSize)
QueueFull(q) == Len(q) >= maxQueueSize

\* variation: a full queue refuses the new event
EnqueueRejectWhenFull(q, id) ==
    IF QueueFull(q) THEN q ELSE Append(q, [id |-> id, rc |-> 0])

\* variation: pop() instead of shift(), the newest queued event is evicted
EnqueueDropNewest(q, id) ==
    Append(IF QueueFull(q) THEN SubSeq(q, 1, Len(q) - 1) ELSE q, [id |-> id, rc |-> 0])

\* enqueue(payload): shift when full, _retryCount = 0, push
Enqueue(q, id) ==
    Append(IF QueueFull(q) THEN Tail(q) ELSE q, [id |-> id, rc |-> 0])

(* ----------------------------- flushQueue ----------------------------- *)
\* variation: a pending retry timeout holds every trigger back
FlushSkipsWhileRetryPending(on) ==
    isSending \/ Len(eventQueue) = 0 \/ ~on \/ timers # {}

\* variation: the navigator.onLine test is missing
FlushSkipsIgnoresOffline(on) == isSending \/ Len(eventQueue) = 0

\* variation: the empty-queue test is missing
FlushSkipsNoEmptyTest(on) == isSending \/ ~on

\* variation: the isSending test is missing
FlushSkipsUnguarded(on) == Len(eventQueue) = 0 \/ ~on

\* the two early returns of flushQueue; on is navigator.onLine at the call
FlushSkips(on) == isSending \/ Len(eventQueue) = 0 \/ ~on

\* the array returned by this.eventQueue.splice(0, maxBatchSize)
TakeBatch(q) == SubSeq(q, 1, Min(Len(q), maxBatchSize))

\* variation: slice() instead of splice(), the queue keeps the batch
AfterSliceOnly(q) == q

\* this.eventQueue after that splice
AfterSplice(q) == SubSeq(q, Min(Len(q), maxBatchSize) + 1, Len(q))

\* variation: this.isSending = false sits inside the catch block
SendingAfterCatchOnly(outcome) == outcome # "exception"

\* variation: the flag is cleared in the success and catch paths only
SendingAfterStatusStuck(outcome) == outcome = "status"

\* variation: no try/catch, a rejected fetch leaves the flag set
SendingAfterUncaught(outcome) == outcome = "exception"

\* this.isSending = false, the last statement of flushQueue, reached after
\* a success response ("ok"), a non-success response ("status") and a caught
\* exception ("exception")
SendingAfter(outcome) == FALSE

\* flushQueue() up to the await
FlushQueue(on) ==
    IF FlushSkips(on)
    THEN /\ UNCHANGED <<eventQueue, isSending, calls, takenAt, sendCount>>
         /\ lastOp' = "noop"
         /\ lastBatch' = <<>>
    ELSE /\ isSending' = TRUE
         /\ eventQueue' = AfterSplice(eventQueue)
         /\ calls' = calls \cup {TakeBatch(eventQueue)}
         /\ lastOp' = "flush"
         /\ lastBatch' = TakeBatch(eventQueue)
         /\ takenAt' = nextId
         /\ sendCount' = [i \in 1..MaxEvents |->
                             IF i \in Ids(TakeBatch(eventQueue))
                             THEN sendCount[i] + 1 ELSE sendCount[i]]

(* -------------------------- handleFailedBatch ------------------------- *)
\* variation: only the first event of the batch is incremented
BumpFirstOnly(b) ==
    [i \in 1..Len(b) |-> IF i = 1 THEN [b[i] EXCEPT !.rc = @ + 1] ELSE b[i]]

\* event._retryCount++ for every event of the batch
Bump(b) == [i \in 1..Len(b) |-> [b[i] EXCEPT !.rc = @ + 1]]

\* variation: one retry more
SurvivesOneMore(e) == e.rc <= maxRetries + 1

\* variation: strict comparison, one retry fewer
SurvivesStrict(e) == e.rc < maxRetries

\* if (event._retryCount <= this.config.maxRetries)
Survives(e) == e.rc <= maxRetries

\* variation: the unshift is outside the if, dropped events are requeued too
RECURSIVE RequeueKeepsDropped(_, _, _)
RequeueKeepsDropped(q, b, i) ==
    IF i > Len(b) THEN q
    ELSE RequeueKeepsDropped(<<b[i]>> \o q, b, i + 1)

\* variation: survivors are pushed at the tail instead of unshifted
RECURSIVE RequeueAtTail(_, _, _)
RequeueAtTail(q, b, i) ==
    IF i > Len(b) THEN q
    ELSE RequeueAtTail(IF b[i].rc <= maxRetries THEN Append(q, b[i]) ELSE q, b, i + 1)

\* the forEach over the (incremented) batch from index i on:
\* every survivor is unshifted onto the queue
RECURSIVE RequeueFrom(_, _, _)
RequeueFrom(q, b, i) ==
    IF i > Len(b) THEN q
    ELSE RequeueFrom(IF Survives(b[i]) THEN <<b[i]>> \o q ELSE q, b, i + 1)

\* events that take the else branch of the forEach
DroppedOf(b) == {b[i].id : i \in {j \in 1..Len(b) : ~Survives(b[j])}}

\* the retry count the delay is computed from (b is the incremented batch)
BackoffRetry(v, b) == IF v = "scalable" THEN MaxRc(b) ELSE b[1].rc

\* variation: exponent off by one
BackoffDelayOffByOne(retry) == BackoffBaseMs * 2 ^ retry

\* backoffBaseMs * Math.pow(2, retry - 1)
BackoffDelay(retry) == BackoffBaseMs * 2 ^ (retry - 1)

\* variation: the previous timeout is not cleared
ClearTimeoutNone(ts, h) == ts

\* clearTimeout(this.retryTimer)
ClearTimeout(ts, h) == {t \in ts : t.id # h}

\* handle returned by setTimeout: one that names no pending timeout
NewHandle(ts) == CHOOSE h \in 1..(Cardinality(ts) + 1) :
                    /\ \A t \in ts : t.id # h
                    /\ \A k \in 1..(h - 1) : \E t \in ts : t.id = k

(* ------------------------------- Init --------------------------------- *)
\* the state after the constructor, with n events still to be produced and
\* the config options taken from the sets Qs, Bs and Rs
Start(n, Qs, Bs, Rs) ==
    /\ variant \in Variants
    /\ maxQueueSize \in Qs
    /\ maxBatchSize \in Bs
    /\ maxRetries \in Rs
    /\ eventQueue = <<>>
    /\ isSending = FALSE
    /\ retryTimer = 0
    /\ timers = {}
    /\ calls = {}
    /\ online \in BOOLEAN
    /\ nextId = 0
    /\ failCount = [i \in 1..MaxEvents |-> 0]
    /\ consecFails = 0
    /\ delivered = {}
    /\ dropped = {}
    /\ evicted = {}
    /\ lastOp = "init"
    /\ lastBatch = <<>>
    /\ takenAt = 0
    /\ sendCount = [i \in 1..MaxEvents |-> 0]
    /\ cleared = FALSE
    /\ budget = n
    /\ stored = [i \in 1..MaxEvents |-> 0]
    /\ reqs = {}

Init == Start(MaxEvents, 1..MaxQueueSizeBound, 1..MaxBatchSizeBound, 1..MaxRetriesBound)

(* ------------------------------ actions ------------------------------- *)
\* a producer calls log(payload) with a freshly built payload
Record ==
    /\ nextId < budget
    /\ nextId' = nextId + 1
    /\ eventQueue' = Enqueue(eventQueue, nextId + 1)
    /\ evicted' = IF QueueFull(eventQueue) /\ Len(eventQueue) > 0
                  THEN evicted \cup {Head(eventQueue).id} ELSE evicted
    /\ lastOp' = "record"
    /\ lastBatch' = IF QueueFull(eventQueue) /\ Len(eventQueue) > 0
                    THEN <<Head(eventQueue)>> ELSE <<>>
    /\ cleared' = FALSE
    /\ UNCHANGED <<config, isSending, retryTimer, timers, calls, online, budget, server,
                   failCount, consecFails, delivered, dropped, takenAt, sendCount>>

\* the setInterval callback of startFlushTimer
Tick ==
    /\ FlushQueue(online)
    /\ cleared' = FALSE
    /\ UNCHANGED <<config, retryTimer, timers, online, nextId, budget, server,
                   failCount, consecFails, delivered, dropped, evicted>>

\* the browser regains connectivity and fires 'online' at the listener
GoOnline ==
    /\ ~online
    /\ online' = TRUE
    /\ FlushQueue(TRUE)
    /\ cleared' = FALSE
    /\ UNCHANGED <<config, retryTimer, timers, nextId, budget, server,
                   failCount, consecFails, delivered, dropped, evicted>>

\* the browser loses connectivity
GoOffline ==
    /\ online
    /\ online' = FALSE
    /\ lastOp' = "offline"
    /\ lastBatch' = <<>>
    /\ cleared' = FALSE
    /\ UNCHANGED <<config, engine, nextId, budget, server,
                   failCount, consecFails, delivered, dropped, evicted, takenAt,
                   sendCount>>

\* a pending retry timeout fires
RetryFire ==
    \E t \in timers :
        /\ timers' = timers \ {t}
        /\ FlushQueue(online)
        /\ cleared' = FALSE
        /\ UNCHANGED <<config, retryTimer, online, nextId, budget, server,
                       failCount, consecFails, delivered, dropped, evicted>>

\* flushQueue after the await, response.ok: the batch is let go
OnResponseOk(b) ==
    /\ calls' = calls \ {b}
    /\ isSending' = SendingAfter("ok")
    /\ delivered' = delivered \cup Ids(b)
    /\ consecFails' = 0
    /\ lastOp' = "ok"
    /\ lastBatch' = b
    /\ cleared' = FALSE
    /\ UNCHANGED <<config, eventQueue, retryTimer, timers, online, nextId, budget,
                   failCount, dropped, evicted, takenAt, sendCount>>

\* flushQueue after the await, !response.ok ("status") or the catch block
\* ("exception"): handleFailedBatch(batch)
OnSendFailed(b, kind) ==
    /\ calls' = calls \ {b}
    /\ eventQueue' = RequeueFrom(eventQueue, Bump(b), 1)
    /\ timers' = LET ts == ClearTimeout(timers, retryTimer)
                 IN ts \cup {[id |-> NewHandle(ts),
                              delay |-> BackoffDelay(BackoffRetry(variant, Bump(b)))]}
    /\ retryTimer' = NewHandle(ClearTimeout(timers, retryTimer))
    /\ isSending' = SendingAfter(kind)
    /\ cleared' = (ClearTimeout(timers, retryTimer) # timers)
    /\ dropped' = dropped \cup DroppedOf(Bump(b))
    /\ failCount' = [i \in 1..MaxEvents |->
                        IF i \in Ids(b) THEN failCount[i] + 1 ELSE failCount[i]]
    /\ consecFails' = consecFails + 1
    /\ lastOp' = "fail"
    /\ lastBatch' = Bump(b)
    /\ UNCHANGED <<config, online, nextId, budget, delivered, evicted, takenAt,
                   sendCount>>

\* fetch resolves with response.ok (whatever endpoint answers)
SendOk ==
    \E b \in calls :
        /\ OnResponseOk(b)
        /\ UNCHANGED server

\* fetch resolves with !response.ok, or rejects
SendFail ==
    \E b \in calls, kind \in {"status", "exception"} :
        /\ OnSendFailed(b, kind)
        /\ UNCHANGED server

(* ------------------- the ingestion handler (server.js) ---------------- *)
\* the handler invocation serving the client's outstanding call for batch b
ReqOf(b) == {r \in reqs : r.batch = b /\ ~r.orphan}

\* await pool.query(INSERT ...) resolved for the next event of the request;
\* after the last event the loop ends and res.json({ ok: true }) is sent
AfterInsert(r) ==
    [r EXCEPT !.done = @ + 1,
              !.status = IF r.done + 1 = Len(r.batch) THEN "ok" ELSE "run"]

\* variation: the insert error is logged inside the loop and the loop goes on
AfterInsertErrorSwallowed(r) == AfterInsert(r)

\* pool.query rejected: catch block, res.status(500)
AfterInsertError(r) == [r EXCEPT !.status = "err"]

\* a handler invocation whose response nobody waits for ends unobserved
Settle(rs) == {r \in rs : ~(r.orphan /\ r.status # "run")}

\* the POST request reaches express and the handler starts
ServerReceive ==
    \E b \in calls :
        /\ ReqOf(b) = {}
        /\ reqs' = reqs \cup {[batch |-> b, done |-> 0, status |-> "run", orphan |-> FALSE]}
        /\ UNCHANGED <<config, engine, online, nextId, budget, stored, history>>

\* one INSERT of the for loop succeeds
ServerInsert ==
    \E r \in reqs :
        /\ r.status = "run"
        /\ stored' = [stored EXCEPT ![r.batch[r.done + 1].id] = @ + 1]
        /\ reqs' = Settle((reqs \ {r}) \cup {AfterInsert(r)})
        /\ UNCHANGED <<config, engine, online, nextId, budget, history>>

\* one INSERT of the for loop fails
ServerInsertError ==
    \E r \in reqs :
        /\ r.status = "run"
        /\ reqs' = Settle((reqs \ {r}) \cup {AfterInsertError(r)})
        /\ UNCHANGED <<config, engine, online, nextId, budget, stored, history>>

\* the client receives the 200 response
ClientGetsOk ==
    \E b \in calls : \E r \in ReqOf(b) :
        /\ r.status = "ok"
        /\ OnResponseOk(b)
        /\ reqs' = reqs \ {r}
        /\ UNCHANGED stored

\* the client receives the 500 response
ClientGetsError ==
    \E b \in calls : \E r \in ReqOf(b) :
        /\ r.status = "err"
        /\ OnSendFailed(b, "status")
        /\ reqs' = reqs \ {r}
        /\ UNCHANGED stored

\* fetch rejects: the request or its response is lost on the wire; a handler
\* that is still running for it goes on without a client
TransportFails ==
    \E b \in calls :
        /\ OnSendFailed(b, "exception")
        /\ reqs' = Settle((reqs \ ReqOf(b)) \cup {[r EXCEPT !.orphan = TRUE] : r \in ReqOf(b)})
        /\ UNCHANGED stored

Next ==
    \/ Record
    \/ Tick
    \/ GoOnline
    \/ GoOffline
    \/ RetryFire
    \/ SendOk
    \/ SendFail

Spec == Init /\ [][Next]_vars

\* The engine under the scheduling the runtime and the environment provide:
\* every fetch settles (resolves or rejects), the network does not stay
\* unreachable forever, and the setInterval callback keeps running, so it
\* runs again and again at moments when a flush can start.
LiveInit == Start(LiveEvents, 1..MaxQueueSizeBound, 1..MaxBatchSizeBound, 1..MaxRetriesBound)

Fairness ==
    /\ WF_vars(SendOk \/ SendFail)
    /\ WF_vars(GoOnline)
    /\ SF_vars(Tick /\ lastOp' = "flush")

LiveSpec == LiveInit /\ [][Next]_vars /\ Fairness

\* The engine together with the ingestion service of server.js as its endpoint.
EndToEndInit == Start(EndToEndEvents, {MaxQueueSizeBound}, {MaxBatchSizeBound}, {1})

EndToEndNext ==
    \/ Record
    \/ Tick
    \/ GoOnline
    \/ GoOffline
    \/ RetryFire
    \/ ServerReceive
    \/ ServerInsert
    \/ ServerInsertError
    \/ ClientGetsOk
    \/ ClientGetsError
    \/ TransportFails

EndToEndSpec == EndToEndInit /\ [][EndToEndNext]_vars

TypeOK ==
    /\ variant \in Variants
    /\ isSending \in BOOLEAN
    /\ online \in BOOLEAN
    /\ nextId \in 0..MaxEvents
    /\ \A i \in 1..Len(eventQueue) : eventQueue[i].id \in 1..nextId
    /\ retryTimer \in Nat

(* ====================================================================== *)
(*                               Properties                               *)
(* ====================================================================== *)
\* the delay of the timeout this.retryTimer names, 0 when it is not pending
PendingDelay ==
    IF \E t \in timers : t.id = retryTimer
    THEN (CHOOSE t \in timers : t.id = retryTimer).delay
    ELSE 0

\* no flushQueue call has got past its early returns so far
NoFlushYet ==
    /\ calls = {}
    /\ delivered = {}
    /\ \A i \in 1..MaxEvents : failCount[i] = 0

\* events of the failed batch that were put back
SurvivorIds == {lastBatch[k].id : k \in {j \in 1..Len(lastBatch) : lastBatch[j].rc <= maxRetries}}

\* C1: single-flight.  At most one send request is outstanding in every
\* reachable state, and a step taken while a send is outstanding (any
\* trigger, record or completion) never adds a send.
SingleFlight ==
    /\ [](Cardinality(calls) <= 1)
    /\ [][calls # {} => calls' \subseteq calls]_vars

\* C1 witness: a trigger arrived with events queued and the network up while
\* a send was outstanding, and did nothing.
SingleFlightWitness ==
    /\ lastOp = "noop"
    /\ Cardinality(calls) = 1
    /\ isSending
    /\ Len(eventQueue) > 0
    /\ online

\* C2: the queue never holds more than maxQueueSize events.
QueueBounded == Len(eventQueue) <= maxQueueSize

\* C3: as long as no flush has taken place, after n records the queue holds
\* exactly the last min(n, maxQueueSize) recorded events, in record order
\* (so its length never exceeded maxQueueSize).
RecordOnlyKeepsLast ==
    NoFlushYet =>
        /\ Len(eventQueue) = Min(nextId, maxQueueSize)
        /\ \A i \in 1..Len(eventQueue) :
              eventQueue[i] = [id |-> nextId - Len(eventQueue) + i, rc |-> 0]

\* C3 witness: maxQueueSize = 3 and four events recorded without any flush;
\* the queue holds the events 2, 3, 4.
RecordOnlyWitness ==
    /\ NoFlushYet
    /\ lastOp = "record"
    /\ maxQueueSize = 3
    /\ nextId = 4
    /\ eventQueue = <<[id |-> 2, rc |-> 0], [id |-> 3, rc |-> 0], [id |-> 4, rc |-> 0]>>

\* C4: a record into a queue of exactly maxQueueSize events removes the head
\* and nothing else, keeps the others in order and appends the new event; a
\* record into a shorter queue only appends.
DropOldestStep ==
    [][nextId' # nextId =>
        LET e == [id |-> nextId', rc |-> 0] IN
        /\ Len(eventQueue) = maxQueueSize =>
              /\ Len(eventQueue') = Len(eventQueue)
              /\ eventQueue'[Len(eventQueue')] = e
              /\ \A i \in 1..(Len(eventQueue) - 1) : eventQueue'[i] = eventQueue[i + 1]
              /\ Head(eventQueue).id \notin Ids(eventQueue')
        /\ Len(eventQueue) < maxQueueSize =>
              eventQueue' = Append(eventQueue, e)]_vars

\* C4 witness: a record has just evicted the head of a full queue of at least
\* two events.
DropOldestWitness ==
    /\ lastOp = "record"
    /\ Len(lastBatch) = 1
    /\ maxQueueSize >= 2
    /\ Len(eventQueue) = maxQueueSize
    /\ eventQueue[Len(eventQueue)].id = nextId

\* C5: after the handling of a failed batch, two survivors are in the queue
\* in the order they had in the batch.
RequeuePreservesOrder ==
    lastOp = "fail" =>
        \A i, j \in 1..Len(lastBatch) :
            (i < j /\ lastBatch[i].rc <= maxRetries /\ lastBatch[j].rc <= maxRetries) =>
                /\ Pos(eventQueue, lastBatch[i].id) > 0
                /\ Pos(eventQueue, lastBatch[i].id) < Pos(eventQueue, lastBatch[j].id)

\* C6: after the handling of a failed batch, every survivor of the batch is
\* in the queue and precedes every queued event that was not in the batch.
SurvivorsAhead ==
    lastOp = "fail" =>
        /\ SurvivorIds \subseteq QueueIds
        /\ \A i, j \in 1..Len(eventQueue) :
              (eventQueue[i].id \in SurvivorIds /\ eventQueue[j].id \notin Ids(lastBatch))
                  => i < j

\* C6 witness: behind the survivors sit an event left in the queue when the
\* batch was taken and an event recorded while the send was in flight.
SurvivorsAheadWitness ==
    /\ lastOp = "fail"
    /\ SurvivorIds # {}
    /\ \E i, j \in 1..Len(eventQueue) :
          /\ eventQueue[i].id \notin Ids(lastBatch)
          /\ eventQueue[i].id <= takenAt
          /\ eventQueue[j].id > takenAt

\* C7: the retryCount of every event held by the engine (queued or in
\* flight) equals the number of failed send attempts that included it.
RetryCountIsFailCount ==
    /\ \A i \in 1..Len(eventQueue) : eventQueue[i].rc = failCount[eventQueue[i].id]
    /\ \A b \in calls : \A i \in 1..Len(b) : b[i].rc = failCount[b[i].id]
    /\ \A i \in (nextId + 1)..MaxEvents : failCount[i] = 0

\* C7 witness: a batch of two has failed for the second time while a newer
\* event with retryCount 0 waits in the queue.
RetryCountWitness ==
    /\ lastOp = "fail"
    /\ Len(lastBatch) = 2
    /\ \E i, j, k \in 1..Len(eventQueue) :
          /\ i # j
          /\ eventQueue[i].rc = 2
          /\ eventQueue[j].rc = 2
          /\ eventQueue[k].rc = 0

\* C8: when a send fails, an event of the batch is discarded for good iff its
\* incremented retryCount exceeds maxRetries, and is put back otherwise; no
\* queued event ever has retryCount > maxRetries and a dropped event is never
\* queued or sent again.
DropIffExceeds ==
    /\ \A i \in 1..Len(eventQueue) : eventQueue[i].rc <= maxRetries
    /\ dropped \cap (QueueIds \cup CallIds) = {}
    /\ lastOp = "fail" =>
          \A k \in 1..Len(lastBatch) :
              /\ lastBatch[k].rc > maxRetries <=> lastBatch[k].id \in dropped
              /\ lastBatch[k].rc <= maxRetries <=>
                    \E i \in 1..Len(eventQueue) : eventQueue[i] = lastBatch[k]

\* C8 witness: of a failed batch of two, one event was dropped and the other
\* was put back.
DropIffExceedsWitness ==
    /\ lastOp = "fail"
    /\ Len(lastBatch) = 2
    /\ \E i, j \in 1..2 :
          /\ lastBatch[i].id \in dropped
          /\ lastBatch[j].id \in QueueIds

\* C9: the retry timer set for a failed batch has the delay
\* backoffBaseMs * 2^(m - 1), m the largest incremented retryCount in the batch.
BackoffUsesBatchMax ==
    lastOp = "fail" => PendingDelay = BackoffBaseMs * 2 ^ (MaxRc(lastBatch) - 1)

\* C10 as stated: the nth consecutive failed send sets the delay
\* backoffBaseMs * 2^(n - 1).
BackoffByConsecutiveFailures ==
    lastOp = "fail" => PendingDelay = BackoffBaseMs * 2 ^ (consecFails - 1)

\* C10 amended: the nth consecutive failed send sets the delay
\* backoffBaseMs * 2^(r - 1) for the incremented retryCount r of an event of
\* the failed batch; no retryCount of the batch exceeds n, and r = n when
\* every event of the batch took part in all n failures.
BackoffByRetryCount ==
    lastOp = "fail" =>
        /\ \E k \in 1..Len(lastBatch) :
              PendingDelay = BackoffBaseMs * 2 ^ (lastBatch[k].rc - 1)
        /\ \A k \in 1..Len(lastBatch) :
              /\ lastBatch[k].rc >= 1
              /\ lastBatch[k].rc <= consecFails
              /\ lastBatch[k].rc <= maxRetries + 1
        /\ (\A k \in 1..Len(lastBatch) : lastBatch[k].rc = consecFails) =>
              PendingDelay = BackoffBaseMs * 2 ^ (consecFails - 1)

\* C10 witness: a batch of two has failed twice in a row, both events were in
\* both attempts, and the retry timer is set to 2000 ms.
BackoffByRetryCountWitness ==
    /\ lastOp = "fail"
    /\ consecFails = 2
    /\ Len(lastBatch) = 2
    /\ \A k \in 1..2 : lastBatch[k].rc = 2
    /\ PendingDelay = 2000

\* a step that is a flushQueue call from a trigger (periodic tick, 'online'
\* signal or retry timer); online' is navigator.onLine as that call reads it
TriggerStep == lastOp' \in {"noop", "flush"}

\* C11: a trigger while the network is unreachable removes no event, starts
\* no send and leaves the sending flag as it was (false when no send is
\* outstanding); a trigger with the network reachable, a non-empty queue and
\* no send outstanding takes a batch and starts a send.
OfflineGating ==
    [][TriggerStep =>
        /\ ~online' =>
              /\ eventQueue' = eventQueue
              /\ calls' = calls
              /\ isSending' = isSending
              /\ (calls = {} => ~isSending')
        /\ (online' /\ Len(eventQueue) > 0 /\ calls = {}) =>
              /\ isSending'
              /\ Cardinality(calls') = 1
              /\ Len(eventQueue') < Len(eventQueue)]_vars

\* C11 witness: a trigger found events queued and no send outstanding while
\* the network was unreachable, and did nothing.
OfflineGatingWitness ==
    /\ lastOp = "noop"
    /\ ~online
    /\ Len(eventQueue) > 0
    /\ calls = {}
    /\ ~isSending

\* C12: at most one retry timer is pending in every reachable state; right
\* after a failed send exactly one is pending, the one this.retryTimer names.
SingleRetryTimer ==
    /\ Cardinality(timers) <= 1
    /\ lastOp = "fail" =>
          /\ Cardinality(timers) = 1
          /\ \A t \in timers : t.id = retryTimer

\* C12 witness: a failed send found the timer of the previous failure still
\* pending and cleared it.
SingleRetryTimerWitness ==
    /\ lastOp = "fail"
    /\ cleared
    /\ consecFails >= 2
    /\ Cardinality(timers) = 1

\* C13: a trigger while isSending is true, the queue is empty or the network
\* is unreachable changes neither the queue, the flag, the in-flight batch nor
\* this.retryTimer and schedules no timer (a retry timer that is itself the
\* trigger has fired and is no longer pending); a trigger with the flag
\* false, events queued and the network reachable starts a flush attempt.
NoOpTriggers ==
    [][TriggerStep =>
        /\ (isSending \/ Len(eventQueue) = 0 \/ ~online') =>
              /\ UNCHANGED <<eventQueue, isSending, calls, retryTimer>>
              /\ timers' \subseteq timers
              /\ Cardinality(timers \ timers') <= 1
              /\ lastOp' = "noop"
        /\ (~isSending /\ Len(eventQueue) > 0 /\ online') =>
              /\ lastOp' = "flush"
              /\ isSending'
              /\ calls' # calls]_vars

\* C13 witness: a trigger arrived while a send was pending, with events
\* queued, the network up and a retry timer pending, and changed nothing.
NoOpTriggersWitness ==
    /\ lastOp = "noop"
    /\ isSending
    /\ online
    /\ Len(eventQueue) > 0
    /\ timers # {}

\* C14: record is possible in every reachable state, puts the new event at
\* the tail of the queue and changes neither the sending flag, the in-flight
\* batch nor the retry timer.
RecordNeverFails ==
    /\ [](nextId < budget => ENABLED Record)
    /\ [][nextId' # nextId =>
            /\ Len(eventQueue') >= 1
            /\ eventQueue'[Len(eventQueue')] = [id |-> nextId', rc |-> 0]
            /\ UNCHANGED <<isSending, calls, timers, retryTimer>>]_vars

\* C14 witness: an event was recorded into a full queue while a send was in
\* flight, the network was down, sends had failed and an event had been
\* dropped after its retries.
RecordNeverFailsWitness ==
    /\ lastOp = "record"
    /\ isSending
    /\ ~online
    /\ Len(lastBatch) = 1
    /\ dropped # {}
    /\ eventQueue[Len(eventQueue)].id = nextId

\* C15: no event is part of more than maxRetries + 1 send attempts, and a
\* dropped event has failed maxRetries + 1 times and is neither queued nor in
\* flight.  With maxBatchSize = 2, maxRetries = 1: a batch of two that fails
\* for the first time is requeued with retryCounts 1 and a retry timer of
\* 1000 ms; when it fails the second time both events are dropped.
BoundedAttempts ==
    /\ \A i \in 1..MaxEvents : sendCount[i] <= maxRetries + 1
    /\ \A i \in dropped :
          /\ failCount[i] = maxRetries + 1
          /\ i \notin QueueIds \cup CallIds
    /\ (lastOp = "fail" /\ maxBatchSize = 2 /\ maxRetries = 1 /\ Len(lastBatch) = 2) =>
          /\ (\A k \in 1..2 : lastBatch[k].rc = 1) =>
                /\ \A k \in 1..2 : \E i \in 1..Len(eventQueue) : eventQueue[i] = lastBatch[k]
                /\ PendingDelay = 1000
          /\ (\A k \in 1..2 : lastBatch[k].rc = 2) =>
                /\ Ids(lastBatch) \subseteq dropped
                /\ Ids(lastBatch) \cap QueueIds = {}

\* C15 witness: maxBatchSize = 2, maxRetries = 1 and the batch [E1,E2] has
\* failed for the second time.
BoundedAttemptsWitness ==
    /\ lastOp = "fail"
    /\ maxBatchSize = 2
    /\ maxRetries = 1
    /\ Ids(lastBatch) = {1, 2}
    /\ \A k \in 1..2 : lastBatch[k].rc = 2
    /\ sendCount[1] = 2
    /\ sendCount[2] = 2

\* C16: whenever no send is in flight the queue is in record order, oldest
\* event at the head.
QueueInRecordOrder ==
    calls = {} =>
        \A i, j \in 1..Len(eventQueue) : i < j => eventQueue[i].id < eventQueue[j].id

\* C19: isSending is true exactly while a send is outstanding; it is true
\* right after the step that takes the batch, and it is false right after a
\* send resolves, on a failure with the survivors requeued and the retry
\* timer set.
SendingTracksInFlight ==
    /\ isSending <=> calls # {}
    /\ lastOp = "flush" => (isSending /\ lastBatch \in calls
                             /\ Ids(lastBatch) \cap QueueIds = {})
    /\ lastOp \in {"ok", "fail"} => ~isSending
    /\ lastOp = "fail" => (SurvivorIds \subseteq QueueIds /\ PendingDelay > 0)

\* C19 witness: a send has failed while events were queued; the flag is
\* false and the retry timer is set.
SendingTracksWitness ==
    /\ lastOp = "fail"
    /\ ~isSending
    /\ calls = {}
    /\ SurvivorIds # {}
    /\ PendingDelay > 0

\* C20: the step that starts a flush takes exactly the first
\* min(|q|, maxBatchSize) events of the queue, in order, as the batch (never
\* an empty one) and leaves exactly the rest of the queue, in order.
BatchIsPrefix ==
    [][(lastOp' = "flush" /\ calls' # calls) =>
        LET k == IF Len(eventQueue) <= maxBatchSize THEN Len(eventQueue)
                 ELSE maxBatchSize
        IN /\ k >= 1
           /\ Len(lastBatch') = k
           /\ \A i \in 1..k : lastBatch'[i] = eventQueue[i]
           /\ Len(eventQueue') = Len(eventQueue) - k
           /\ \A i \in 1..Len(eventQueue') : eventQueue'[i] = eventQueue[k + i]
           /\ calls' = calls \cup {lastBatch'}]_vars

\* C20 witness: a flush took a full batch of two and left events behind.
BatchIsPrefixWitness ==
    /\ lastOp = "flush"
    /\ maxBatchSize = 2
    /\ Len(lastBatch) = 2
    /\ Len(eventQueue) >= 1
    /\ lastBatch \in calls

\* every recorded event is in exactly one terminal state
AllTerminal ==
    \A i \in 1..nextId :
        /\ i \in delivered \cup dropped \cup evicted
        /\ ~(i \in delivered /\ i \in dropped)
        /\ ~(i \in delivered /\ i \in evicted)
        /\ ~(i \in dropped /\ i \in evicted)

\* C17: when every send settles, the network keeps coming back and the
\* periodic timer keeps firing, the engine ends up for good with an empty
\* queue, no send in flight and every recorded event delivered, dropped after
\* its retries or evicted by overflow (exactly one of the three).
EveryEventTerminates ==
    <>[](eventQueue = <<>> /\ ~isSending /\ calls = {} /\ AllTerminal)

\* C17 witness: all events were recorded and the engine is idle and empty,
\* one event delivered and another dropped after its retries.
EveryEventTerminatesWitness ==
    /\ nextId = budget
    /\ eventQueue = <<>>
    /\ ~isSending
    /\ calls = {}
    /\ AllTerminal
    /\ delivered # {}
    /\ dropped # {}

Resolved == CHOOSE b \in calls : b \notin calls'

\* C21: from the same state and batch a non-success response and a transport
\* exception lead to the same state; and every resolution treats the batch as
\* one unit: on success every event of it is let go as delivered and nothing
\* else changes hands, on failure every event of it has its failed attempt
\* counted and is requeued or dropped, none is delivered.
FailureKindsAlike ==
    /\ [](\A b \in calls :
            /\ ~ENABLED (/\ OnSendFailed(b, "status") /\ UNCHANGED server
                         /\ ~(OnSendFailed(b, "exception") /\ UNCHANGED server))
            /\ ~ENABLED (/\ OnSendFailed(b, "exception") /\ UNCHANGED server
                         /\ ~(OnSendFailed(b, "status") /\ UNCHANGED server)))
    /\ [][(\E b \in calls : b \notin calls') =>
            \/ /\ lastOp' = "ok"
               /\ Ids(Resolved) \subseteq delivered'
               /\ Ids(Resolved) \cap (Ids(eventQueue') \cup dropped') = {}
               /\ eventQueue' = eventQueue
               /\ failCount' = failCount
               /\ ~isSending'
            \/ /\ lastOp' = "fail"
               /\ Ids(Resolved) \cap delivered' = {}
               /\ \A k \in 1..Len(Resolved) :
                     /\ failCount'[Resolved[k].id] = failCount[Resolved[k].id] + 1
                     /\ Resolved[k].id \in Ids(eventQueue') \cup dropped'
                     /\ ~(Resolved[k].id \in Ids(eventQueue') /\ Resolved[k].id \in dropped')
               /\ ~isSending']_vars

\* C21 witness: a batch of two has failed with events recorded meanwhile; one
\* event of the batch was requeued, the other dropped, the flag is false.
FailureKindsAlikeWitness ==
    /\ lastOp = "fail"
    /\ ~isSending
    /\ Len(lastBatch) = 2
    /\ Len(eventQueue) >= 2
    /\ Ids(lastBatch) \cap dropped # {}
    /\ Ids(lastBatch) \cap QueueIds # {}

\* C22: the three variants, given the same configuration and the same
\* history, agree after every step; the only place where their code differs
\* is the delay of the retry timer, so they agree iff the delay set by a
\* failed send is the one each of the three classes computes.
VariantsAgree ==
    lastOp = "fail" =>
        \A v \in Variants :
            PendingDelay = BackoffBaseMs * 2 ^ (BackoffRetry(v, lastBatch) - 1)

\* C23: a POST /telemetry request ends with a success response and all its
\* events inserted, or with a failure response and none of its events stored.
HandlerAllOrNothing ==
    \A r \in reqs :
        /\ r.status = "ok" =>
              /\ r.done = Len(r.batch)
              /\ \A k \in 1..Len(r.batch) : stored[r.batch[k].id] >= 1
        /\ r.status = "err" =>
              /\ r.done = 0
              /\ (\A k \in 1..Len(r.batch) : sendCount[r.batch[k].id] = 1) =>
                    \A k \in 1..Len(r.batch) : stored[r.batch[k].id] = 0

\* number of places that hold the event i
Places(i) ==
      Cardinality({k \in 1..Len(eventQueue) : eventQueue[k].id = i})
    + Cardinality({<<b, k>> \in UNION {{b} \X (1..Len(b)) : b \in calls} : b[k].id = i})
    + (IF i \in delivered THEN 1 ELSE 0)
    + (IF i \in dropped THEN 1 ELSE 0)
    + (IF i \in evicted THEN 1 ELSE 0)

\* C24: every recorded event is in exactly one place: at one position of the
\* queue, in the in-flight batch, delivered, dropped or evicted; events not
\* yet recorded are nowhere; a delivered, dropped or evicted event stays so
\* and is not in the queue after any step.
EventConservation ==
    /\ [](/\ \A i \in 1..nextId : Places(i) = 1
          /\ \A i \in (nextId + 1)..MaxEvents : Places(i) = 0)
    /\ [][/\ delivered \subseteq delivered'
          /\ dropped \subseteq dropped'
          /\ evicted \subseteq evicted'
          /\ (delivered \cup dropped \cup evicted) \cap Ids(eventQueue') = {}]_vars

\* C24 witness: one event each is in flight, delivered, dropped and evicted.
EventConservationWitness ==
    /\ calls # {}
    /\ delivered # {}
    /\ dropped # {}
    /\ evicted # {}
    /\ nextId = 4

\* events held by the engine in the in-flight batch(es)
InFlight == Cardinality(UNION {{b} \X (1..Len(b)) : b \in calls})

\* C25: the queue, and the queue together with the in-flight batch, never
\* hold more than maxQueueSize + maxBatchSize events; a record into a queue
\* longer than maxQueueSize evicts the head and keeps the length.
ActualMemoryBound ==
    /\ [](/\ Len(eventQueue) <= maxQueueSize + maxBatchSize
          /\ Len(eventQueue) + InFlight <= maxQueueSize + maxBatchSize)
    /\ [][(nextId' # nextId /\ Len(eventQueue) > maxQueueSize) =>
            /\ Len(eventQueue') = Len(eventQueue)
            /\ Head(eventQueue).id \in evicted'
            /\ Head(eventQueue).id \notin Ids(eventQueue')]_vars

\* C25 witness: a record has just evicted the head of a queue that a requeue
\* had filled to maxQueueSize + maxBatchSize.
ActualMemoryBoundWitness ==
    /\ lastOp = "record"
    /\ Len(lastBatch) = 1
    /\ lastBatch[1].rc >= 1
    /\ Len(eventQueue) = maxQueueSize + maxBatchSize

\* C26 as stated: no send attempt with an event that has failed before begins
\* while the retry timer set by that failure is still pending.
BackoffRespected ==
    ~(/\ lastOp = "flush"
      /\ \E k \in 1..Len(lastBatch) : lastBatch[k].rc >= 1
      /\ \E t \in timers : t.id = retryTimer)

\* C26 amended: the retry timer holds no other trigger back.  A periodic tick
\* or 'online' signal (a trigger that leaves the timers as they are) that finds
\* the network reachable, events queued and no send outstanding while the
\* retry timer is pending starts a send at once, and the batch holds every
\* queued event that has failed before; the pending timer stays in place.
BackoffNotEnforced ==
    [][(/\ TriggerStep
        /\ timers' = timers
        /\ \E t \in timers : t.id = retryTimer
        /\ ~isSending
        /\ Len(eventQueue) > 0
        /\ online') =>
        /\ lastOp' = "flush"
        /\ isSending'
        /\ lastBatch' \in calls'
        /\ {eventQueue[i].id : i \in {j \in 1..Len(eventQueue) : eventQueue[j].rc >= 1}}
              \subseteq Ids(lastBatch')
        /\ retryTimer' = retryTimer]_vars

\* C26 witness: a send with requeued events is in flight and the retry timer
\* of their failure is still pending.
BackoffNotEnforcedWitness ==
    /\ lastOp = "flush"
    /\ \A k \in 1..Len(lastBatch) : lastBatch[k].rc >= 1
    /\ \E t \in timers : t.id = retryTimer /\ t.delay >= 2000
    /\ lastBatch \in calls

====
